---- MODULE Spec2Model ----
(***************************************************************************)
(* RomKit orgposter: DeviceInfoReader (device_info_reader.py).             *)
(*                                                                         *)
(* The reader builds sources_cache once, in its constructor, from the      *)
(* configured source descriptors, and then answers get_device_info and     *)
(* get_all_devices by merging prefixed fields of the matching cached       *)
(* records into a copy of the OTA record supplied by the JSONReader.       *)
(*                                                                         *)
(* Python values are modelled as follows.                                  *)
(*   dict with string keys and string values : a function on its keys      *)
(*   None (also the result of dict.get on an absent key) : the value None  *)
(*   a value whose Python type matters (isinstance) : a tagged record      *)
(*       [t, s, d, l] with t in "none", "str", "dict", "list", "raise";    *)
(*       "raise" stands for a call that raised instead of returning        *)
(*   an insertion-ordered dict keyed by source name (sources_cache) : a    *)
(*       sequence of entries with pairwise distinct names                  *)
(***************************************************************************)
EXTENDS Integers, Sequences, FiniteSets, TLC

VARIABLES device_info_sources, sources_cache, catalog, pc, last, cache0, catalog0

vars == <<device_info_sources, sources_cache, catalog, pc, last, cache0, catalog0>>

(***************************************************************************)
(* Bounds of the model.                                                    *)
(***************************************************************************)
MaxSources == 2

MaxDevices == 2

(***************************************************************************)
(* Python values.                                                          *)
(***************************************************************************)
None == "None"

EmptyDict == [k \in {} |-> ""]

PyNone == [t |-> "none", s |-> "", d |-> EmptyDict, l |-> <<>>]

PyRaise == [t |-> "raise", s |-> "", d |-> EmptyDict, l |-> <<>>]

PyStr(str) == [t |-> "str", s |-> str, d |-> EmptyDict, l |-> <<>>]

PyDict(dict) == [t |-> "dict", s |-> "", d |-> dict, l |-> <<>>]

PyList(list) == [t |-> "list", s |-> "", d |-> EmptyDict, l |-> list]

\* bool(v) of a string or None, as used by `if not source_name`, `if lookup_value`
Truthy(v) == v # None /\ v # ""

\* bool(v) of a tagged value, as used by `if extracted_data`, `if match`, `if not ota_data`
TruthyVal(v) ==
    CASE v.t = "none" -> FALSE
      [] v.t = "str"  -> v.s # ""
      [] v.t = "dict" -> DOMAIN v.d # {}
      [] v.t = "list" -> Len(v.l) > 0
      [] OTHER        -> FALSE

\* dict.get(key): None when the key is absent
Get(dict, key) == IF key \in DOMAIN dict THEN dict[key] ELSE None

\* dict.update(other): the keys of other overwrite
Update(dict, other) == other @@ dict

\* mutant: the fields are merged under their own names
AsUnprefixed(source_name, match) == match

\* {f"{source_name}_{k}": v for k, v in match.items()}
AsPrefixed(source_name, match) ==
    LET newkey(k) == source_name \o "_" \o k
    IN  [kk \in {newkey(k) : k \in DOMAIN match} |->
            match[CHOOSE k \in DOMAIN match : newkey(k) = kk]]

(***************************************************************************)
(* The environment: what a file holds and what the projector makes of it.  *)
(* A raw JSON value is abstracted by what extract_data returns for it      *)
(* under the descriptor's schema: `proj` for the value itself and, when     *)
(* the value is a list, `items[i].proj` for its i-th element.              *)
(***************************************************************************)
StructList == "[item_schema]"

StructEmptyList == "[]"

StructDict == "{schema}"

StructIsList(structure) == structure \in {StructList, StructEmptyList}

StructLen(structure) == IF structure = StructList THEN 1 ELSE 0

\* structure[0], the per-item schema of a list schema
StructFirst(structure) == "item_schema"

Raw(islist, items, proj) ==
    [raises |-> FALSE, islist |-> islist,
     items |-> [i \in 1..Len(items) |-> [proj |-> items[i]]], proj |-> proj]

FetchError == [raises |-> TRUE, islist |-> FALSE, items |-> <<>>, proj |-> PyNone]

\* records held by the source files
R1 == ("x" :> "v1" @@ "y" :> "v2")

R2 == ("x" :> "v1" @@ "y" :> "v3")

R3 == ("x" :> "v2" @@ "y" :> "v1")

R4 == ("x" :> "v2" @@ "A_y" :> "v3")

R5 == ("x" :> "v1" @@ "y_x" :> "v3")

R6 == ("y" :> "v1")

\* json.load / json.loads of the named file; a name not listed does not exist
FileContent(file) ==
    CASE file = "list2.json"    -> Raw(TRUE, <<PyDict(R1), PyDict(R2)>>, PyDict(R3))
      [] file = "list0.json"    -> Raw(TRUE, <<>>, PyNone)
      [] file = "listnone.json" -> Raw(TRUE, <<PyNone, PyDict(R3)>>, PyList(<<PyDict(R3)>>))
      [] file = "listbad.json"  -> Raw(TRUE, <<PyDict(R1), PyRaise>>, PyRaise)
      [] file = "obj.json"      -> Raw(FALSE, <<>>, PyDict(R1))
      [] file = "objlist.json"  -> Raw(FALSE, <<>>, PyList(<<PyDict(R3), PyDict(R1), PyDict(R2)>>))
      [] file = "objempty.json" -> Raw(FALSE, <<>>, PyDict(EmptyDict))
      [] file = "null.json"     -> Raw(FALSE, <<>>, PyNone)
      [] file = "str.json"      -> Raw(FALSE, <<>>, PyStr("v1"))
      [] file = "chain.json"    -> Raw(TRUE, <<PyDict(R4), PyDict(R5), PyDict(R6)>>, PyNone)
      [] OTHER                  -> FetchError

\* utils.extract_data(data, structure)
extract_data(data, structure) == data.proj

(***************************************************************************)
(* _load_github_source / _load_local_source                                *)
(***************************************************************************)
\* source["repo"] and source["file"] raise KeyError when absent
LoadGithubSource(source) ==
    IF "repo" \notin DOMAIN source \/ "file" \notin DOMAIN source
    THEN FetchError
    ELSE FileContent(source["file"])

LoadLocalSource(source) ==
    IF "file" \notin DOMAIN source THEN FetchError ELSE FileContent(source["file"])

(***************************************************************************)
(* _load_all_sources                                                       *)
(***************************************************************************)
IndexOfName(cache, name) ==
    IF \E i \in 1..Len(cache) : cache[i].name = name
    THEN CHOOSE i \in 1..Len(cache) : cache[i].name = name
    ELSE 0

\* mutant: an existing entry is kept (setdefault)
CacheStoreKeepFirst(cache, name, data, source) ==
    IF \E i \in 1..Len(cache) : cache[i].name = name
    THEN cache
    ELSE Append(cache, [name |-> name, data |-> data, config |-> source])

\* self.sources_cache[source_name] = {"data": ..., "config": source}
\* (a dict keeps the position of a key that is assigned again)
CacheStore(cache, name, data, source) ==
    LET entry == [name |-> name, data |-> data, config |-> source]
        i == IndexOfName(cache, name)
    IN  IF i = 0 THEN Append(cache, entry) ELSE [cache EXCEPT ![i] = entry]

\* lines 92-95: extract_data(item, structure[0]) for each item, appended in order
ExtractItems(data, structure) ==
    LET outs == [i \in 1..Len(data.items) |->
                    extract_data(data.items[i], StructFirst(structure))]
    IN  IF \E i \in 1..Len(outs) : outs[i].t = "raise" THEN PyRaise ELSE PyList(outs)

\* mutant: the projection result is stored as it is
NormalizeSkipped(extracted_data) == extracted_data

\* lines 99-100
Normalize(extracted_data) ==
    IF extracted_data.t # "list"
    THEN IF TruthyVal(extracted_data) THEN PyList(<<extracted_data>>) ELSE PyList(<<>>)
    ELSE extracted_data

\* lines 85-105, once the payload is fetched
ProjectAndStore(cache, source_name, source, data) ==
    IF "structure" \notin DOMAIN source
    THEN [outcome |-> "raise", cache |-> cache]
    ELSE LET structure == source["structure"]
             extracted_data ==
                 IF data.islist /\ StructIsList(structure) /\ StructLen(structure) > 0
                 THEN ExtractItems(data, structure)
                 ELSE extract_data(data, structure)
         IN  IF extracted_data.t = "raise"
             THEN [outcome |-> "raise", cache |-> cache]
             ELSE [outcome |-> "stored",
                   cache |-> CacheStore(cache, source_name, Normalize(extracted_data), source)]

\* mutant: an unknown type is loaded as a local file instead of skipped
TryBodyAnyType(cache, source_name, source) ==
    IF "type" \notin DOMAIN source
    THEN [outcome |-> "raise", cache |-> cache]
    ELSE LET fetched == IF source["type"] = "github"
                        THEN LoadGithubSource(source)
                        ELSE LoadLocalSource(source)
         IN  IF fetched.raises
             THEN [outcome |-> "raise", cache |-> cache]
             ELSE ProjectAndStore(cache, source_name, source, fetched)

\* the body of the try statement, lines 75-106
TryBody(cache, source_name, source) ==
    IF "type" \notin DOMAIN source
    THEN [outcome |-> "raise", cache |-> cache]
    ELSE IF source["type"] \notin {"github", "local"}
    THEN [outcome |-> "continue", cache |-> cache]
    ELSE LET fetched == IF source["type"] = "github"
                        THEN LoadGithubSource(source)
                        ELSE LoadLocalSource(source)
         IN  IF fetched.raises
             THEN [outcome |-> "raise", cache |-> cache]
             ELSE ProjectAndStore(cache, source_name, source, fetched)

\* mutant: the handler does not catch the exception
ExceptHandlerReraise(tried) == tried

\* `except Exception as e`: the error is printed and the loop goes on
ExceptHandler(tried) == [outcome |-> "caught", cache |-> tried.cache]

\* one iteration of the for loop, lines 69-109
LoadOne(cache, source) ==
    LET source_name == Get(source, "name")
    IN  IF ~Truthy(source_name)
        THEN [outcome |-> "continue", cache |-> cache]
        ELSE LET tried == TryBody(cache, source_name, source)
             IN  IF tried.outcome = "raise" THEN ExceptHandler(tried) ELSE tried

\* the for loop, from the i-th descriptor on; an exception that escapes ends it
RECURSIVE LoadFrom(_, _, _)
LoadFrom(sources, i, cache) ==
    IF i > Len(sources)
    THEN [raised |-> FALSE, cache |-> cache]
    ELSE LET step == LoadOne(cache, sources[i])
         IN  IF step.outcome = "raise"
             THEN [raised |-> TRUE, cache |-> step.cache]
             ELSE LoadFrom(sources, i + 1, step.cache)

LoadAllSources(sources) == LoadFrom(sources, 1, <<>>)

(***************************************************************************)
(* _lookup_in_source                                                       *)
(***************************************************************************)
\* mutant: the scan does not stop at the first equal item
RECURSIVE ScanToLast(_, _, _, _)
ScanToLast(items, i, lookup_field, lookup_value) ==
    IF i > Len(items)
    THEN PyNone
    ELSE LET later == ScanToLast(items, i + 1, lookup_field, lookup_value)
         IN  IF later.t = "dict"
             THEN later
             ELSE IF items[i].t = "dict" /\ Get(items[i].d, lookup_field) = lookup_value
             THEN items[i]
             ELSE PyNone

\* lines 164-166: the first dict item whose lookup_field equals lookup_value
RECURSIVE ScanFrom(_, _, _, _)
ScanFrom(items, i, lookup_field, lookup_value) ==
    IF i > Len(items)
    THEN PyNone
    ELSE IF items[i].t = "dict" /\ Get(items[i].d, lookup_field) = lookup_value
    THEN items[i]
    ELSE ScanFrom(items, i + 1, lookup_field, lookup_value)

LookupInSource(cache, source_name, lookup_field, lookup_value) ==
    IF IndexOfName(cache, source_name) = 0
    THEN PyNone
    ELSE LET data == cache[IndexOfName(cache, source_name)].data
         IN  CASE data.t = "list" -> ScanFrom(data.l, 1, lookup_field, lookup_value)
               [] data.t = "dict" -> IF Get(data.d, lookup_field) = lookup_value
                                     THEN data ELSE PyNone
               [] OTHER -> PyNone

(***************************************************************************)
(* _merge_sources_into_device                                              *)
(*                                                                         *)
(* The two local names ota_data and current_data denote dict objects;     *)
(* `shared` tells whether they denote the same object, in which case an    *)
(* update through one is seen through the other.  `trace` records, per     *)
(* cached source, the lookup_value read and the match found.               *)
(***************************************************************************)
\* mutant: current_data = ota_data, no copy
AliasOtaData(ota_data) ==
    [ota_data |-> ota_data, current_data |-> ota_data, shared |-> TRUE, trace |-> <<>>]

\* line 183: current_data = ota_data.copy()
CopyOtaData(ota_data) ==
    [ota_data |-> ota_data, current_data |-> ota_data, shared |-> FALSE, trace |-> <<>>]

\* line 201: current_data.update(prefixed_match)
UpdateCurrent(m, prefixed_match) ==
    [m EXCEPT !.current_data = Update(@, prefixed_match),
              !.ota_data = IF m.shared THEN Update(@, prefixed_match) ELSE @]

Traced(m, lookup_value, match) ==
    [m EXCEPT !.trace = Append(@, [lookup_value |-> lookup_value, match |-> match])]

\* mutant: the match value is always read from the primary record
ResolveFromOtaData(m, config, lookup_field) ==
    IF Truthy(Get(config, "match_from"))
    THEN Get(m.ota_data, config["match_from"])
    ELSE Get(m.ota_data, lookup_field)

\* lines 192-195
ResolveLookupValue(m, config, lookup_field) ==
    IF Truthy(Get(config, "match_from"))
    THEN Get(m.current_data, config["match_from"])
    ELSE Get(m.ota_data, lookup_field)

\* mutant: `if lookup_value` is left out
MergeOneAnyValue(cache, entry, m) ==
    LET config == entry.config
        lookup_field == Get(config, "lookup_field")
    IN  IF ~Truthy(lookup_field)
        THEN Traced(m, None, PyNone)
        ELSE LET lookup_value == ResolveLookupValue(m, config, lookup_field)
                 match == LookupInSource(cache, entry.name, lookup_field, lookup_value)
             IN  IF TruthyVal(match)
                 THEN Traced(UpdateCurrent(m, AsPrefixed(entry.name, match.d)),
                             lookup_value, match)
                 ELSE Traced(m, lookup_value, match)

\* one iteration of the loop over sources_cache.items(), lines 186-201
MergeOne(cache, entry, m) ==
    LET config == entry.config
        lookup_field == Get(config, "lookup_field")
    IN  IF ~Truthy(lookup_field)
        THEN Traced(m, None, PyNone)
        ELSE LET lookup_value == ResolveLookupValue(m, config, lookup_field)
             IN  IF ~Truthy(lookup_value)
                 THEN Traced(m, lookup_value, PyNone)
                 ELSE LET match == LookupInSource(cache, entry.name, lookup_field, lookup_value)
                      IN  IF TruthyVal(match)
                          THEN Traced(UpdateCurrent(m, AsPrefixed(entry.name, match.d)),
                                      lookup_value, match)
                          ELSE Traced(m, lookup_value, match)

RECURSIVE MergeFrom(_, _, _)
MergeFrom(cache, i, m) ==
    IF i > Len(cache) THEN m ELSE MergeFrom(cache, i + 1, MergeOne(cache, cache[i], m))

\* the result: current_data is returned, ota_data is what the caller's record now holds
MergeSourcesIntoDevice(cache, ota_data) == MergeFrom(cache, 1, CopyOtaData(ota_data))

(***************************************************************************)
(* The JSONReader (json_reader.py): the OTA catalog.                       *)
(***************************************************************************)
\* json_reader.get_device_info(id_field, id_value): the index of the first
\* record whose id_field holds id_value, 0 when there is none
JsonReaderFind(records, id_field, id_value) ==
    IF \E i \in 1..Len(records) : Get(records[i], id_field) = id_value
    THEN CHOOSE i \in 1..Len(records) :
            /\ Get(records[i], id_field) = id_value
            /\ \A j \in 1..(i - 1) : Get(records[j], id_field) # id_value
    ELSE 0

(***************************************************************************)
(* get_device_info / get_all_devices                                       *)
(***************************************************************************)
\* lines 217-223 for the record the reader returned (i = 0: none)
DeviceInfo(sources, cache, records, i) ==
    IF i = 0 \/ DOMAIN records[i] = {}
    THEN [ret |-> PyNone, merges |-> <<>>, records |-> records]
    ELSE IF sources = <<>>
    THEN [ret |-> PyDict(records[i]), merges |-> <<>>, records |-> records]
    ELSE LET m == MergeSourcesIntoDevice(cache, records[i])
         IN  [ret |-> PyDict(m.current_data),
              merges |-> <<[ota |-> records[i], out |-> m.current_data, trace |-> m.trace]>>,
              records |-> [records EXCEPT ![i] = m.ota_data]]

\* mutant: the loop appends ota_device instead of merged_device
AllDevicesUnmerged(sources, cache, records) ==
    [rets |-> records, merges |-> <<>>, records |-> records]

\* lines 232-243
AllDevices(sources, cache, records) ==
    IF sources = <<>>
    THEN [rets |-> records, merges |-> <<>>, records |-> records]
    ELSE LET ms == [i \in 1..Len(records) |-> MergeSourcesIntoDevice(cache, records[i])]
         IN  [rets |-> [i \in 1..Len(records) |-> ms[i].current_data],
              merges |-> [i \in 1..Len(records) |->
                            [ota |-> records[i], out |-> ms[i].current_data,
                             trace |-> ms[i].trace]],
              records |-> [i \in 1..Len(records) |-> ms[i].ota_data]]

(***************************************************************************)
(* Inputs: configured source descriptors and OTA records.                  *)
(***************************************************************************)
Opt(key, value) == IF value = None THEN EmptyDict ELSE (key :> value)

\* a source descriptor; None leaves the key out
Source(name, type, file, structure, lookup_field, match_from) ==
    Opt("name", name) @@ Opt("type", type) @@ Opt("file", file)
        @@ Opt("structure", structure) @@ Opt("lookup_field", lookup_field)
        @@ Opt("match_from", match_from)

LoadFiles ==
    {"missing.json", "list2.json", "list0.json", "listnone.json", "listbad.json",
     "obj.json", "objlist.json", "objempty.json", "null.json", "str.json"}

\* descriptors that differ in name, type, file and structure
LoadPool ==
    {Source("A", "local", f, StructList, "x", None) : f \in LoadFiles}
    \cup {Source("B", "local", f, StructList, "x", None) :
            f \in {"missing.json", "list2.json", "obj.json"}}
    \cup {Source("A", "local", f, st, "x", None) :
            f \in {"list2.json", "listbad.json"},
            st \in {StructDict, StructEmptyList, None}}
    \cup {Source(n, "local", "list2.json", StructList, "x", None) : n \in {None, ""}}
    \cup {Source("A", t, "obj.json", StructDict, "x", None) :
            t \in {"github", "ftp", None}}
    \cup {Source("A", "github", "obj.json", StructDict, "x", None) @@ ("repo" :> "org/devices")}

\* descriptors that differ in name, data, lookup_field and match_from
MergePool ==
    {Source("A", "local", "list2.json", StructList, "x", None),
     Source("A", "local", "chain.json", StructList, "x", None),
     Source("B", "local", "chain.json", StructList, "x", "A_y"),
     Source("B", "local", "chain.json", StructList, "A_y", None),
     Source("B", "local", "list2.json", StructList, None, None),
     Source("B", "local", "list2.json", StructList, "y", None),
     Source("A_y", "local", "objlist.json", StructDict, "x", None),
     Source("A", "local", "missing.json", StructList, "x", None)}

RECURSIVE SeqsUpTo(_, _)
SeqsUpTo(S, n) ==
    IF n = 0 THEN {<<>>}
    ELSE LET shorter == SeqsUpTo(S, n - 1)
         IN  shorter \cup {Append(q, e) : q \in {r \in shorter : Len(r) = n - 1}, e \in S}

Dev1 == ("id" :> "d1" @@ "x" :> "v1")

Dev2 == ("id" :> "d2" @@ "x" :> "v2")

Dev3 == ("id" :> "d1" @@ "x" :> "" @@ "A_y" :> "v2")

DevicePool == {Dev1, Dev2, Dev3}

IdValues == {"d1", "d2", "d9"}

LookupNames == {"A", "B"}

LookupFields == {"x"}

LookupValues == {"v1", "v9"}

(***************************************************************************)
(* The state machine.                                                      *)
(***************************************************************************)
NoCall ==
    [op |-> "none", args |-> <<>>, ret |-> PyNone, rets |-> <<>>, merges |-> <<>>]

\* __init__ up to line 58, before `if self.device_info_sources`
InitWith(sources, records) ==
    /\ device_info_sources = sources
    /\ sources_cache = <<>>
    /\ catalog = records
    /\ pc = "init"
    /\ last = NoCall
    /\ cache0 = <<>>
    /\ catalog0 = records

Init ==
    \E sources \in SeqsUpTo(MergePool, MaxSources), records \in SeqsUpTo(DevicePool, MaxDevices) :
        InitWith(sources, records)

InitLoad ==
    \E sources \in SeqsUpTo(LoadPool, MaxSources) : InitWith(sources, <<Dev1>>)

\* lines 60-61: the cache is built; an escaping exception fails the constructor
Construct ==
    /\ pc = "init"
    /\ LET built == IF device_info_sources # <<>>
                    THEN LoadAllSources(device_info_sources)
                    ELSE [raised |-> FALSE, cache |-> <<>>]
       IN  /\ sources_cache' = built.cache
           /\ cache0' = built.cache
           /\ pc' = IF built.raised THEN "raised" ELSE "ready"
    /\ UNCHANGED <<device_info_sources, catalog, last, catalog0>>

GetDeviceInfo(id_field, id_value) ==
    /\ pc = "ready"
    /\ LET i == JsonReaderFind(catalog, id_field, id_value)
           r == DeviceInfo(device_info_sources, sources_cache, catalog, i)
       IN  /\ last' = [op |-> "get_device_info", args |-> <<id_field, id_value>>,
                       ret |-> r.ret, rets |-> <<>>, merges |-> r.merges]
           /\ catalog' = r.records
    /\ UNCHANGED <<device_info_sources, sources_cache, pc, cache0, catalog0>>

GetAllDevices ==
    /\ pc = "ready"
    /\ LET r == AllDevices(device_info_sources, sources_cache, catalog)
       IN  /\ last' = [op |-> "get_all_devices", args |-> <<>>,
                       ret |-> PyNone, rets |-> r.rets, merges |-> r.merges]
           /\ catalog' = r.records
    /\ UNCHANGED <<device_info_sources, sources_cache, pc, cache0, catalog0>>

Lookup(source_name, lookup_field, lookup_value) ==
    /\ pc = "ready"
    /\ last' = [op |-> "_lookup_in_source",
                args |-> <<source_name, lookup_field, lookup_value>>,
                ret |-> LookupInSource(sources_cache, source_name, lookup_field, lookup_value),
                rets |-> <<>>, merges |-> <<>>]
    /\ UNCHANGED <<device_info_sources, sources_cache, catalog, pc, cache0, catalog0>>

Next ==
    \/ Construct
    \/ \E id_value \in IdValues : GetDeviceInfo("id", id_value)
    \/ GetAllDevices
    \/ \E n \in LookupNames, f \in LookupFields, v \in LookupValues : Lookup(n, f, v)

Spec == Init /\ [][Next]_vars

SpecLoad == InitLoad /\ [][Next]_vars

(***************************************************************************)
(* Vocabulary of the claims, stated from the inputs.                       *)
(***************************************************************************)
Named(src) == Truthy(Get(src, "name"))

FetchRaises(src) ==
    \/ "file" \notin DOMAIN src
    \/ (Get(src, "type") = "github" /\ "repo" \notin DOMAIN src)
    \/ FileContent(src["file"]).raises

\* the projection runs item by item
PerItemPath(src) == FileContent(src["file"]).islist /\ src["structure"] = StructList

ProjectionRaises(src) ==
    \/ "structure" \notin DOMAIN src
    \/ IF PerItemPath(src)
       THEN \E i \in 1..Len(FileContent(src["file"]).items) :
                FileContent(src["file"]).items[i].proj.t = "raise"
       ELSE FileContent(src["file"]).proj.t = "raise"

\* a named source of a type the code dispatches on, whose fetch or projection raises
SourceFails(src) ==
    /\ Named(src)
    /\ Get(src, "type") \in {"github", "local"}
    /\ (FetchRaises(src) \/ ProjectionRaises(src))

LoadsOk(src) ==
    /\ Named(src)
    /\ Get(src, "type") \in {"github", "local"}
    /\ ~FetchRaises(src)
    /\ ~ProjectionRaises(src)

Without(seq, i) == SubSeq(seq, 1, i - 1) \o SubSeq(seq, i + 1, Len(seq))

CachedConfigs == {sources_cache[i].config : i \in 1..Len(sources_cache)}

\* the records a loaded descriptor is to hold, in load order
ExpectedData(src) ==
    LET raw == FileContent(src["file"])
    IN  IF PerItemPath(src)
        THEN [i \in 1..Len(raw.items) |-> raw.items[i].proj]
        ELSE CASE raw.proj.t = "list" -> raw.proj.l
               [] raw.proj.t = "dict" /\ DOMAIN raw.proj.d # {} -> <<raw.proj>>
               [] raw.proj.t = "str" /\ raw.proj.s # "" -> <<raw.proj>>
               [] OTHER -> <<>>

PrefixedKeys(source_name, record) == {source_name \o "_" \o k : k \in DOMAIN record}

\* C1: when the fetch or projection of a named source raises, construction
\* still completes without raising, no cache entry holds that descriptor, and
\* the cache is the one built from the list without that descriptor.
C1_FailureIsolation ==
    pc # "init" =>
        /\ pc = "ready"
        /\ \A i \in 1..Len(device_info_sources) :
            SourceFails(device_info_sources[i]) =>
                /\ device_info_sources[i] \notin CachedConfigs
                /\ sources_cache = LoadAllSources(Without(device_info_sources, i)).cache

C1_Witness ==
    /\ pc = "ready"
    /\ Len(device_info_sources) = 2
    /\ SourceFails(device_info_sources[1])
    /\ FetchRaises(device_info_sources[1])
    /\ LoadsOk(device_info_sources[2])
    /\ Len(sources_cache) = 1
    /\ sources_cache[1].config = device_info_sources[2]

\* C2: a descriptor whose name is absent or empty, or whose type is neither
\* the remote variant (the string "github" in the code) nor "local" (an
\* absent type included), gets no cache entry, and construction does not
\* raise; loading continues with the next descriptor.
C2_ConfigErrorsSkipped ==
    pc # "init" =>
        /\ pc = "ready"
        /\ \A i \in 1..Len(device_info_sources) :
            (~Named(device_info_sources[i])
                \/ Get(device_info_sources[i], "type") \notin {"github", "local"})
            => /\ device_info_sources[i] \notin CachedConfigs
               /\ sources_cache = LoadAllSources(Without(device_info_sources, i)).cache

C2_Witness ==
    /\ pc = "ready"
    /\ Len(device_info_sources) = 2
    /\ Named(device_info_sources[1])
    /\ Get(device_info_sources[1], "type") = "ftp"
    /\ LoadsOk(device_info_sources[2])
    /\ Len(sources_cache) = 1
    /\ sources_cache[1].config = device_info_sources[2]

\* C3: every cache entry's data is a list: a single mapping gives length 1,
\* an empty or falsy result length 0, a list of N records length N, on the
\* per-item path (N raw items) and on the whole-payload path alike.
C3_Normalization ==
    \A i \in 1..Len(sources_cache) :
        LET e == sources_cache[i]
            raw == FileContent(e.config["file"])
        IN  /\ e.data.t = "list"
            /\ e.data.l = ExpectedData(e.config)
            /\ PerItemPath(e.config) => Len(e.data.l) = Len(raw.items)
            /\ ~PerItemPath(e.config) =>
                Len(e.data.l) = CASE raw.proj.t = "list" -> Len(raw.proj.l)
                                  [] raw.proj.t = "dict" /\ DOMAIN raw.proj.d # {} -> 1
                                  [] raw.proj.t = "str" /\ raw.proj.s # "" -> 1
                                  [] OTHER -> 0

C3_Witness ==
    /\ Len(sources_cache) = 2
    /\ ~PerItemPath(sources_cache[1].config)
    /\ FileContent(sources_cache[1].config["file"]).proj.t = "dict"
    /\ Len(sources_cache[1].data.l) = 1
    /\ PerItemPath(sources_cache[2].config)
    /\ Len(sources_cache[2].data.l) = 2

\* C10: the cache has at most one entry per name, and the entry of a name
\* holds the config and data of the last descriptor of that name that
\* loaded: of two loaded descriptors sharing a name, the later one.
C10_DuplicateNames ==
    pc = "ready" =>
        /\ \A i, j \in 1..Len(sources_cache) :
            sources_cache[i].name = sources_cache[j].name => i = j
        /\ \A j \in 1..Len(device_info_sources) :
            (/\ LoadsOk(device_info_sources[j])
             /\ \A k \in (j + 1)..Len(device_info_sources) :
                    ~(LoadsOk(device_info_sources[k])
                        /\ device_info_sources[k]["name"] = device_info_sources[j]["name"]))
            => \E i \in 1..Len(sources_cache) :
                /\ sources_cache[i].name = device_info_sources[j]["name"]
                /\ sources_cache[i].config = device_info_sources[j]
                /\ sources_cache[i].data = PyList(ExpectedData(device_info_sources[j]))

C10_Witness ==
    /\ pc = "ready"
    /\ Len(device_info_sources) = 2
    /\ LoadsOk(device_info_sources[1])
    /\ LoadsOk(device_info_sources[2])
    /\ device_info_sources[1]["name"] = device_info_sources[2]["name"]
    /\ ExpectedData(device_info_sources[1]) # ExpectedData(device_info_sources[2])
    /\ Len(sources_cache) = 1
    /\ sources_cache[1].config = device_info_sources[2]
    /\ sources_cache[1].data.l = ExpectedData(device_info_sources[2])

(***************************************************************************)
(* Vocabulary of the merge claims.  A merge is one run of                  *)
(* _merge_sources_into_device recorded by the last query: the primary      *)
(* record `ota` as the reader supplied it, the merged record `out`, and    *)
(* per cached source the lookup_value read and the match found.            *)
(***************************************************************************)
Merges == {last.merges[n] : n \in 1..Len(last.merges)}

Matched(m, i) == TruthyVal(m.trace[i].match)

\* the cached sources that wrote the key, by their position in the cache
Writers(m, key) ==
    {i \in 1..Len(sources_cache) :
        Matched(m, i) /\ key \in PrefixedKeys(sources_cache[i].name, m.trace[i].match.d)}

AllPrefixedKeys(m) ==
    UNION {PrefixedKeys(sources_cache[i].name, m.trace[i].match.d) :
            i \in {j \in 1..Len(sources_cache) : Matched(m, j)}}

Max(S) == CHOOSE i \in S : \A j \in S : j <= i

Min(S) == CHOOSE i \in S : \A j \in S : i <= j

\* the positions in a list of cached items of the dict records whose field equals the value
Equal(items, field, value) ==
    {n \in 1..Len(items) : items[n].t = "dict" /\ Get(items[n].d, field) = value}

\* C4 as stated: for a matched source S with record R the merged record holds
\* S_k with R's value for every field k of R, holds a bare key k of R only
\* if the primary record had it, and holds no key of a source that did not
\* match.
C4_Original ==
    \A m \in Merges :
        /\ DOMAIN m.out \subseteq DOMAIN m.ota \cup AllPrefixedKeys(m)
        /\ \A i \in 1..Len(sources_cache) :
            Matched(m, i) =>
                \A k \in DOMAIN m.trace[i].match.d :
                    /\ Get(m.out, sources_cache[i].name \o "_" \o k) = m.trace[i].match.d[k]
                    /\ k \in DOMAIN m.out => k \in DOMAIN m.ota

\* C4 amended: the keys of the merged record are the keys of the primary
\* record and the prefixed keys S_k of the matched sources, nothing else; a
\* key S_k holds R's value for k unless a source later in cache order also
\* matched and wrote the same key, and then it holds the later source's
\* value; a key no matched source wrote holds the primary record's value.
C4_PrefixingLaw ==
    \A m \in Merges :
        /\ DOMAIN m.out = DOMAIN m.ota \cup AllPrefixedKeys(m)
        /\ \A key \in DOMAIN m.out :
            IF Writers(m, key) = {}
            THEN m.out[key] = m.ota[key]
            ELSE LET i == Max(Writers(m, key))
                     R == m.trace[i].match.d
                 IN  \E k \in DOMAIN R :
                        /\ sources_cache[i].name \o "_" \o k = key
                        /\ m.out[key] = R[k]

\* two matched sources wrote one key, and the later one's value stands
C4_Witness ==
    \E m \in Merges :
        \E key \in DOMAIN m.out :
            \E i, j \in Writers(m, key) :
                /\ i < j
                /\ j = Max(Writers(m, key))
                /\ \E k \in DOMAIN m.trace[i].match.d :
                    /\ sources_cache[i].name \o "_" \o k = key
                    /\ m.trace[i].match.d[k] # m.out[key]
                /\ \E k \in DOMAIN m.trace[j].match.d :
                    /\ sources_cache[j].name \o "_" \o k = key
                    /\ m.trace[j].match.d[k] = m.out[key]

\* C5: a source with match_from reads its match value from the record as
\* merged by the sources before it in cache order; a source without
\* match_from reads lookup_field from the primary record; a match_from
\* source whose field neither the primary record nor an earlier matched
\* source supplies is skipped.
C5_MatchFromChaining ==
    \A m \in Merges :
        \A i \in 1..Len(sources_cache) :
            LET config == sources_cache[i].config
                before == MergeSourcesIntoDevice(SubSeq(sources_cache, 1, i - 1), m.ota)
            IN  Truthy(Get(config, "lookup_field")) =>
                    IF Truthy(Get(config, "match_from"))
                    THEN /\ m.trace[i].lookup_value
                                = Get(before.current_data, config["match_from"])
                         /\ (/\ config["match_from"] \notin DOMAIN m.ota
                             /\ \A j \in 1..(i - 1) : j \notin Writers(m, config["match_from"]))
                            => /\ m.trace[i].lookup_value = None
                               /\ ~Matched(m, i)
                    ELSE m.trace[i].lookup_value = Get(m.ota, config["lookup_field"])

\* source B matched on a value that source A, before it, had merged in
C5_Witness ==
    \E m \in Merges :
        /\ Len(sources_cache) = 2
        /\ Get(sources_cache[2].config, "match_from") = "A_y"
        /\ "A_y" \notin DOMAIN m.ota
        /\ Writers(m, "A_y") = {1}
        /\ m.trace[2].lookup_value = m.trace[1].match.d["y"]
        /\ Matched(m, 2)

\* C6: queries leave sources_cache and the reader's records as they were
\* after construction, and a query repeated with the same input returns the
\* same result.
C6_QueriesReadOnly ==
    /\ [](pc = "ready" => sources_cache = cache0 /\ catalog = catalog0)
    /\ [][(pc = "ready" /\ last'.op = last.op /\ last'.args = last.args)
            => (last'.ret = last.ret /\ last'.rets = last.rets)]_vars

\* a merge has run, has added fields, and cache and catalog are as before
C6_Witness ==
    /\ last.op = "get_all_devices"
    /\ \E m \in Merges : m.out # m.ota
    /\ sources_cache = cache0
    /\ catalog = catalog0

\* no cached source matches the record: it has no lookup_field, its match
\* value is falsy, or no record of it holds that value
NoSourceMatches(cache, record) ==
    \A i \in 1..Len(cache) :
        LET config == cache[i].config
            lookup_field == Get(config, "lookup_field")
            value == IF Truthy(Get(config, "match_from"))
                     THEN Get(record, config["match_from"])
                     ELSE Get(record, lookup_field)
        IN  \/ ~Truthy(lookup_field)
            \/ ~Truthy(value)
            \/ Equal(cache[i].data.l, lookup_field, value) = {}

\* C7: a primary record that no cached source matches is returned field for
\* field as it is, also when the cache is empty because every source failed.
C7_RoundTrip ==
    \A m \in Merges : NoSourceMatches(sources_cache, m.ota) => m.out = m.ota

\* a falsy match value and a lookup miss in one merge
C7_Witness ==
    \E m \in Merges :
        /\ NoSourceMatches(sources_cache, m.ota)
        /\ m.out = m.ota
        /\ Len(sources_cache) = 2
        /\ \E i \in 1..2 : ~Truthy(m.trace[i].lookup_value)
        /\ \E i \in 1..2 : Truthy(m.trace[i].lookup_value) /\ ~Matched(m, i)

\* C8: the lookup returns the first record, in load order, whose field
\* equals the value, and not-found for a name that is not cached or when no
\* record is equal; the merge applies that first record.
C8_FirstMatchWins ==
    /\ last.op = "_lookup_in_source" =>
        LET i == IndexOfName(sources_cache, last.args[1])
        IN  IF i = 0
            THEN last.ret = PyNone
            ELSE LET items == sources_cache[i].data.l
                     eq == Equal(items, last.args[2], last.args[3])
                 IN  IF eq = {} THEN last.ret = PyNone ELSE last.ret = items[Min(eq)]
    /\ \A m \in Merges :
        \A i \in 1..Len(sources_cache) :
            LET items == sources_cache[i].data.l
                eq == Equal(items, Get(sources_cache[i].config, "lookup_field"),
                            m.trace[i].lookup_value)
            IN  /\ Matched(m, i) => eq # {} /\ m.trace[i].match = items[Min(eq)]
                /\ (Truthy(m.trace[i].lookup_value) /\ eq # {}) => Matched(m, i)

\* a lookup with two equal records returned the first
C8_Witness ==
    /\ last.op = "_lookup_in_source"
    /\ LET i == IndexOfName(sources_cache, last.args[1])
       IN  /\ i # 0
           /\ LET items == sources_cache[i].data.l
                  eq == Equal(items, last.args[2], last.args[3])
              IN  /\ Cardinality(eq) = 2
                  /\ items[Min(eq)] # items[Max(eq)]
                  /\ last.ret = items[Min(eq)]

\* C9: with sources configured get_all_devices returns, in catalog order,
\* the merge of each primary record, which is what get_device_info returns
\* for that record; with none configured both return the reader's records
\* as they are; get_device_info returns None when the reader finds nothing.
C9_BulkAgreesWithMerge ==
    /\ last.op = "get_all_devices" =>
        IF device_info_sources # <<>>
        THEN /\ Len(last.rets) = Len(catalog0)
             /\ \A i \in 1..Len(catalog0) :
                /\ last.rets[i] = MergeSourcesIntoDevice(cache0, catalog0[i]).current_data
                /\ PyDict(last.rets[i])
                    = DeviceInfo(device_info_sources, cache0, catalog0, i).ret
        ELSE last.rets = catalog0
    /\ last.op = "get_device_info" =>
        LET i == JsonReaderFind(catalog0, last.args[1], last.args[2])
        IN  IF i = 0
            THEN last.ret = PyNone
            ELSE IF device_info_sources = <<>>
            THEN last.ret = PyDict(catalog0[i])
            ELSE last.ret = PyDict(MergeSourcesIntoDevice(cache0, catalog0[i]).current_data)

\* two records merged in catalog order, fields added to the first
C9_Witness ==
    /\ last.op = "get_all_devices"
    /\ device_info_sources # <<>>
    /\ Len(last.rets) = 2
    /\ last.rets[1] # last.rets[2]
    /\ last.rets[1] # catalog0[1]
    /\ DOMAIN catalog0[1] \subseteq DOMAIN last.rets[1]

====
